---------------------------- MODULE Spec2Model ----------------------------
(***************************************************************************)
(* Model of the Bihar risk atlas: the Earth Engine extraction script       *)
(* (gee_scripts/extraction_script.js) as a sequence of collection-valued   *)
(* statements, and the compound risk index documented with it.             *)
(*                                                                         *)
(* Time is kept at day resolution: system:time_start is a day number       *)
(* (days since 1970-01-01) and dates are converted to and from calendar    *)
(* year / month / day by the calendar operators below.  Pixel values are   *)
(* exact rationals <<numerator, denominator>> in lowest terms.             *)
(***************************************************************************)
EXTENDS Integers, Sequences, FiniteSets

VARIABLES
    pc,          \* position in the extraction script
    catalog,     \* content of the hosted dataset the current section reads
    collection,  \* the ee.ImageCollection value built by the current section
    table,       \* the ee.FeatureCollection value built by the current section
    failed,      \* the current section's computation raises an error
    tasks,       \* export tasks issued so far
    rpc,         \* position in the compound risk computation
    indices,     \* per-block stress indices: sequence of [flood, gw]
    baseline,    \* the indices before an affine rescaling was applied
    affine,      \* the affine rescaling applied, or NoAffine
    risk         \* per-block CompoundScore rows, <<>> until computed

vars == <<pc, catalog, collection, table, failed, tasks,
          rpc, indices, baseline, affine, risk>>

extractVars == <<pc, catalog, collection, table, failed, tasks>>
riskVars == <<rpc, indices, baseline, affine, risk>>

---------------------------------------------------------------------------
(* Bounds of the model *)

NumBlocks == 2
PixPerBlock == 2
MaxScenes == 2
MaxDaily == 3
MaxFlood == 2
MaxGw == 1
MaxRiskBlocks == 6
MaxRescaleBlocks == 3

---------------------------------------------------------------------------
(* Exact rational arithmetic *)

Abs(n) == IF n < 0 THEN -n ELSE n

RECURSIVE GCD(_, _)
GCD(a, b) == IF b = 0 THEN a ELSE GCD(b, a % b)

\* <<n, d>> with d > 0, reduced to lowest terms
Rat(n, d) ==
    LET g == GCD(Abs(n), d)
    IN  IF n = 0 THEN <<0, 1>> ELSE <<n \div g, d \div g>>

RAdd(x, y) == Rat(x[1] * y[2] + y[1] * x[2], x[2] * y[2])
RSub(x, y) == Rat(x[1] * y[2] - y[1] * x[2], x[2] * y[2])
RMul(x, y) == Rat(x[1] * y[1], x[2] * y[2])
RDivInt(x, k) == Rat(x[1], x[2] * k)
RLeq(x, y) == x[1] * y[2] <= y[1] * x[2]
RLess(x, y) == x[1] * y[2] < y[1] * x[2]

---------------------------------------------------------------------------
(* Calendar: ee.Date at day resolution *)

IsLeap(y) == (y % 4 = 0 /\ y % 100 # 0) \/ y % 400 = 0

DaysInMonth(y, m) ==
    IF m = 2 THEN (IF IsLeap(y) THEN 29 ELSE 28)
    ELSE IF m \in {4, 6, 9, 11} THEN 30 ELSE 31

LeapsBefore(y) == (y - 1) \div 4 - (y - 1) \div 100 + (y - 1) \div 400

RECURSIVE DaysBeforeMonth(_, _)
DaysBeforeMonth(y, m) ==
    IF m = 1 THEN 0 ELSE DaysBeforeMonth(y, m - 1) + DaysInMonth(y, m - 1)

\* ee.Date.fromYMD / ee.Date('yyyy-mm-dd'): days since 1970-01-01
FromYMD(y, m, d) ==
    365 * (y - 1970) + (LeapsBefore(y) - LeapsBefore(1970))
        + DaysBeforeMonth(y, m) + (d - 1)

CalendarYears == 2018 .. 2025

\* ee.Date.get('year')
GetYear(t) ==
    CHOOSE y \in CalendarYears : FromYMD(y, 1, 1) <= t /\ t < FromYMD(y + 1, 1, 1)

\* ee.Date.get('month')
GetMonth(t) ==
    LET y == GetYear(t)
    IN  CHOOSE m \in 1 .. 12 :
            /\ FromYMD(y, m, 1) <= t
            /\ t < FromYMD(y, m, 1) + DaysInMonth(y, m)

\* ee.Date.advance(1, 'month') of the first day of a month
AdvanceMonth(t) ==
    LET y == GetYear(t)
        m == GetMonth(t)
    IN  IF m = 12 THEN FromYMD(y + 1, 1, 1) ELSE FromYMD(y, m + 1, 1)

startDate == FromYMD(2019, 1, 1)
endDate == FromYMD(2024, 12, 31)

---------------------------------------------------------------------------
(* Blocks, pixels and the hosted datasets *)

\* the block FeatureCollection: block identifiers
blocks == 1 .. NumBlocks

Pixels == 1 .. (NumBlocks * PixPerBlock)
PixelsOf(b) == ((b - 1) * PixPerBlock + 1) .. (b * PixPerBlock)

\* a masked pixel and an absent mean: the quotient with no value, 0/0
Masked == <<0, 0>>
NoValue == <<0, 0>>
\* an absent numeric property
NoProp == 0 - 1

\* band names of the script; an image holds a pixel array for the bands it
\* has and NoBand for the others
AllBands == {"B8", "B4", "nd", "NDVI", "ET", "precipitation", "Rainfall"}
NoBand == <<>>
BandNames(img) == { b \in AllBands : img.bands[b] # NoBand }

\* days on which the hosted datasets may hold a scene
SampleDays ==
    { FromYMD(2018, 12, 31), FromYMD(2019, 1, 1), FromYMD(2019, 1, 31),
      FromYMD(2019, 2, 1), FromYMD(2020, 2, 29), FromYMD(2024, 12, 30),
      FromYMD(2024, 12, 31), FromYMD(2025, 1, 1) }

\* footprints: a scene holds valid data on the first k pixels of the region:
\* on none, on part of the first block, on the first block only, on all blocks
Footprints == { 1 .. k : k \in {0, 1, PixPerBlock, NumBlocks * PixPerBlock} }

CloudLevels == {39, 40}

\* digital number of a band at a pixel (the ground raster every scene samples)
DN(band, p) ==
    CASE band = "B8" -> 2000 + 1000 * p
      [] band = "B4" -> 1000
      [] band = "ET" -> 100 + 7 * p
      [] band = "NDVI" -> 3000 + 1111 * p
      [] band = "precipitation" -> 3 + p

\* a stored scene as an image: properties and one pixel array per band
SceneImage(day, cloud, cover, bandNames) ==
    [ index |-> <<day, Cardinality(cover), cloud>>,
      time_start |-> day,
      cloud |-> cloud,
      footprint |-> cover,
      bands |-> [ bn \in AllBands |->
                    IF bn \notin bandNames THEN NoBand
                    ELSE [ p \in Pixels |->
                             IF p \in cover THEN Rat(DN(bn, p), 1) ELSE Masked ] ] ]

ScenesOf(bandNames, clouds) ==
    { SceneImage(d, c, f, bandNames) :
        d \in SampleDays, c \in clouds, f \in Footprints }

RECURSIVE SubsetsUpTo(_, _)
SubsetsUpTo(S, n) ==
    IF n = 0 THEN {{}}
    ELSE LET prev == SubsetsUpTo(S, n - 1)
         IN  prev \cup { T \cup {x} : T \in prev, x \in S }

\* possible contents of ee.ImageCollection("COPERNICUS/S2_SR")
S2Catalogs == SubsetsUpTo(ScenesOf({"B8", "B4"}, CloudLevels), MaxScenes)

\* possible contents of ee.ImageCollection("UCSB-CHG/CHIRPS/DAILY"):
\* one image per day, valid on every pixel of the region
ChirpsCatalogs ==
    SubsetsUpTo({ SceneImage(d, NoProp, Pixels, {"precipitation"}) :
                    d \in SampleDays }, MaxDaily)

\* possible contents of ee.ImageCollection("MODIS/061/MOD16A2")
EtCatalogs == SubsetsUpTo(ScenesOf({"ET"}, {NoProp}), MaxScenes)

\* possible contents of ee.ImageCollection("MODIS/061/MOD13Q1")
ModisCatalogs == SubsetsUpTo(ScenesOf({"NDVI"}, {NoProp}), MaxScenes)

---------------------------------------------------------------------------
(* Earth Engine operations used by the script *)

\* ImageCollection.filterBounds(blocks)
FilterBounds(col) ==
    { img \in col : \E b \in blocks : img.footprint \cap PixelsOf(b) # {} }

\* ImageCollection.filterDate(start, end)
FilterDate(col, start, end) ==
    { img \in col : start <= img.time_start /\ img.time_start < end }

CloudThreshold == 40

\* variant of FilterCloud: the threshold itself passes (lte for lt)
FilterCloudLte(col) == { img \in col : img.cloud <= CloudThreshold }

\* ImageCollection.filter(ee.Filter.lt('CLOUDY_PIXEL_PERCENTAGE', 40))
FilterCloud(col) == { img \in col : img.cloud < CloudThreshold }

\* Image.select(band)
Select(img, bn) ==
    [img EXCEPT !.bands = [ b \in AllBands |->
                               IF b = bn THEN img.bands[bn] ELSE NoBand ]]

\* Image.rename(name) of a one-band image
Rename(img, name) ==
    LET old == CHOOSE b \in BandNames(img) : TRUE
    IN  [img EXCEPT !.bands = [ b \in AllBands |->
                                   IF b = name THEN img.bands[old] ELSE NoBand ]]

\* Image.multiply(constant): every band, pixel by pixel; properties are lost
Multiply(img, factor) ==
    [img EXCEPT
       !.time_start = NoProp,
       !.cloud = NoProp,
       !.bands = [ b \in AllBands |->
                     IF img.bands[b] = NoBand THEN NoBand
                     ELSE [ p \in Pixels |->
                              IF img.bands[b][p] = Masked THEN Masked
                              ELSE RMul(img.bands[b][p], factor) ] ]]

\* Image.normalizedDifference([a, b]): (a - b) / (a + b) pixel by pixel,
\* one band named 'nd'; properties are lost
NormalizedDifference(img, a, b) ==
    [img EXCEPT
       !.time_start = NoProp,
       !.cloud = NoProp,
       !.bands = [ n \in AllBands |->
                     IF n # "nd" THEN NoBand
                     ELSE [ p \in Pixels |->
                              LET x == img.bands[a][p]
                                  y == img.bands[b][p]
                              IN  IF x = Masked \/ y = Masked THEN Masked
                                  ELSE IF RAdd(x, y)[1] = 0 THEN Masked
                                  ELSE Rat(RSub(x, y)[1] * RAdd(x, y)[2],
                                           RSub(x, y)[2] * RAdd(x, y)[1]) ] ]]

\* Image.copyProperties(src, ['system:time_start'])
CopyTimeStart(img, src) == [img EXCEPT !.time_start = src.time_start]

RECURSIVE SumOver(_, _)
SumOver(S, f) ==
    IF S = {} THEN <<0, 1>>
    ELSE LET x == CHOOSE x \in S : TRUE
         IN  RAdd(f[x], SumOver(S \ {x}, f))

\* ee.Reducer.mean() over the valid pixels of a region; no value when none
MeanOver(px, region) ==
    LET valid == { p \in region : px[p] # Masked }
    IN  IF valid = {} THEN NoValue
        ELSE RDivInt(SumOver(valid, px), Cardinality(valid))

\* variant of ReduceRegions: features without a mean are not emitted
ReduceRegionsNonNull(img, year, month) ==
    { [ image |-> img.index,
        block |-> b,
        mean |-> MeanOver(img.bands[CHOOSE n \in BandNames(img) : TRUE],
                          PixelsOf(b)),
        year |-> year,
        month |-> month ] :
        b \in { c \in blocks :
                  /\ BandNames(img) # {}
                  /\ img.footprint \cap PixelsOf(c) # {} } }

\* Image.reduceRegions({collection: blocks, reducer: mean}) followed by
\* f.set({year, month}): one feature per block of the collection
ReduceRegions(img, year, month) ==
    { [ image |-> img.index,
        block |-> b,
        mean |-> IF BandNames(img) = {} THEN NoValue
                 ELSE MeanOver(img.bands[CHOOSE n \in BandNames(img) : TRUE],
                               PixelsOf(b)),
        year |-> year,
        month |-> month ] : b \in blocks }

\* variant of ReducePerImage: months counted from 0
ReducePerImageMonth0(col) ==
    UNION { ReduceRegions(img, GetYear(img.time_start),
                          GetMonth(img.time_start) - 1) : img \in col }

\* col.map(function(img) { date = ee.Date(img.get('system:time_start')); ...
\*   reduceRegions ... set year/month of date }).flatten()
ReducePerImage(col) ==
    UNION { ReduceRegions(img, GetYear(img.time_start), GetMonth(img.time_start)) :
              img \in col }


\* ImageCollection.sum(): pixel by pixel over the images holding a value;
\* an image with no band when the collection is empty
SumImage(col) ==
    [ index |-> <<>>,
      time_start |-> NoProp,
      cloud |-> NoProp,
      footprint |-> UNION { img.footprint : img \in col },
      bands |->
        IF col = {} THEN [ b \in AllBands |-> NoBand ]
        ELSE LET names == BandNames(CHOOSE img \in col : TRUE)
             IN  [ b \in AllBands |->
                     IF b \notin names THEN NoBand
                     ELSE [ p \in Pixels |->
                              LET have == { img \in col : img.bands[b][p] # Masked }
                              IN  IF have = {} THEN Masked
                                  ELSE SumOver(have,
                                               [ img \in have |-> img.bands[b][p] ]) ] ] ]

\* the years and months the script composes rainfall for
RainYears == 2019 .. 2024
RainMonths == 1 .. 12

\* chirps.filterDate(start, end).sum() for the month starting at FromYMD(y, m, 1)
MonthSum(chirps, y, m) ==
    LET start == FromYMD(y, m, 1)
        end == AdvanceMonth(start)
    IN  SumImage(FilterDate(chirps, start, end))

\* rain.rename('Rainfall').set({year, month, system:time_start})
MonthImage(chirps, y, m) ==
    LET rain == MonthSum(chirps, y, m)
        named == IF BandNames(rain) = {} THEN rain ELSE Rename(rain, "Rainfall")
    IN  [ index |-> <<y, m>>,
          time_start |-> FromYMD(y, m, 1),
          cloud |-> NoProp,
          footprint |-> named.footprint,
          bands |-> named.bands,
          year |-> y,
          month |-> m ]

\* a month whose daily collection is empty: its sum has no band to rename
EmptyMonths(chirps) ==
    { ym \in RainYears \X RainMonths :
        FilterDate(chirps, FromYMD(ym[1], ym[2], 1),
                   AdvanceMonth(FromYMD(ym[1], ym[2], 1))) = {} }

\* Export.table.toDrive({collection, description, fileFormat})
ExportTask(description, band) ==
    [ description |-> description, fileFormat |-> "CSV", variable |-> band ]

---------------------------------------------------------------------------
(* The extraction script, statement by statement.  catalog, collection,   *)
(* table and failed hold the values of the section being evaluated: no     *)
(* statement reads a collection of an earlier section, so an export ends   *)
(* its section and the values are dropped.                                 *)

InitExtract ==
    /\ pc = "start"
    /\ catalog = {}
    /\ collection = {}
    /\ table = {}
    /\ failed = FALSE
    /\ tasks = <<>>

InitRiskIdle ==
    /\ rpc = "idle"
    /\ indices = <<>>
    /\ baseline = <<>>
    /\ affine = [ target |-> "none", a |-> 1, b |-> 0 ]
    /\ risk = <<>>

Init == InitExtract /\ InitRiskIdle

\* var s2 = ee.ImageCollection("COPERNICUS/S2_SR").filterBounds(blocks)
\*   .filterDate(startDate, endDate).filter(lt(CLOUDY_PIXEL_PERCENTAGE, 40))
\*   .map(normalizedDifference(['B8','B4']).rename('NDVI').copyProperties)
S2Index(img) ==
    CopyTimeStart(Rename(NormalizedDifference(img, "B8", "B4"), "NDVI"), img)

S2Pipeline(cat) ==
    { S2Index(img) :
        img \in FilterCloud(FilterDate(FilterBounds(cat), startDate, endDate)) }

S2Collection ==
    /\ pc = "start"
    /\ \E cat \in S2Catalogs :
          /\ catalog' = cat
          /\ collection' = S2Pipeline(cat)
    /\ table' = {}
    /\ failed' = FALSE
    /\ pc' = "s2"
    /\ UNCHANGED <<tasks, riskVars>>

\* var ndviTable = s2.map(reduceRegions ... set year/month).flatten()
S2Reduce ==
    /\ pc = "s2"
    /\ table' = ReducePerImage(collection)
    /\ pc' = "s2_table"
    /\ UNCHANGED <<catalog, collection, failed, tasks, riskVars>>

\* Export.table.toDrive({collection: ndviTable, description: 'Bihar_Block_NDVI'})
S2Export ==
    /\ pc = "s2_table"
    /\ tasks' = Append(tasks, ExportTask("Bihar_Block_NDVI", "NDVI"))
    /\ pc' = "s2_exported"
    /\ catalog' = {}
    /\ collection' = {}
    /\ table' = {}
    /\ failed' = FALSE
    /\ UNCHANGED riskVars

\* var chirps = ee.ImageCollection("UCSB-CHG/CHIRPS/DAILY")
\*   .filterBounds(blocks).filterDate(startDate, endDate)
ChirpsPipeline(cat) == FilterDate(FilterBounds(cat), startDate, endDate)

ChirpsCollection ==
    /\ pc = "s2_exported"
    /\ \E cat \in ChirpsCatalogs :
          /\ catalog' = cat
          /\ collection' = ChirpsPipeline(cat)
    /\ table' = {}
    /\ failed' = FALSE
    /\ pc' = "chirps"
    /\ UNCHANGED <<tasks, riskVars>>

\* var monthlyRain = ee.ImageCollection(ee.List.sequence(2019, 2024).map(
\*   y -> ee.List.sequence(1,12).map(m -> ...)).flatten())
\* Renaming the band-less sum of an empty month either raises an error, which
\* fails the whole computation, or leaves a band-less image.
MonthlyRain ==
    /\ pc = "chirps"
    /\ \/ /\ collection' =
               { MonthImage(collection, ym[1], ym[2]) : ym \in RainYears \X RainMonths }
          /\ failed' = FALSE
       \/ /\ EmptyMonths(collection) # {}
          /\ collection' = {}
          /\ failed' = TRUE
    /\ pc' = "monthly"
    /\ UNCHANGED <<catalog, table, tasks, riskVars>>

\* var rainTable = monthlyRain.map(reduceRegions ... set year/month of img).flatten()
RainReducePerImage(col) ==
    UNION { ReduceRegions(img, img.year, img.month) : img \in col }

RainReduce ==
    /\ pc = "monthly"
    /\ table' = RainReducePerImage(collection)
    /\ pc' = "rain_table"
    /\ UNCHANGED <<catalog, collection, failed, tasks, riskVars>>

\* Export.table.toDrive({collection: rainTable, description: 'Bihar_Block_Rainfall'})
RainExport ==
    /\ pc = "rain_table"
    /\ tasks' = Append(tasks, ExportTask("Bihar_Block_Rainfall", "Rainfall"))
    /\ pc' = "rain_exported"
    /\ catalog' = {}
    /\ collection' = {}
    /\ table' = {}
    /\ failed' = FALSE
    /\ UNCHANGED riskVars

\* var etCol = ee.ImageCollection("MODIS/061/MOD16A2").filterBounds(blocks)
\*   .filterDate(startDate, endDate).select('ET')
\*   .map(img.multiply(0.1).rename('ET').copyProperties)
EtScale == Rat(1, 10)
\* variant of EtIndex: the scale factor is not applied
EtIndexUnscaled(img) == CopyTimeStart(Rename(Select(img, "ET"), "ET"), img)

EtIndex(img) ==
    CopyTimeStart(Rename(Multiply(Select(img, "ET"), EtScale), "ET"), img)

EtPipeline(cat) ==
    { EtIndex(img) : img \in FilterDate(FilterBounds(cat), startDate, endDate) }

EtCollection ==
    /\ pc = "rain_exported"
    /\ \E cat \in EtCatalogs :
          /\ catalog' = cat
          /\ collection' = EtPipeline(cat)
    /\ table' = {}
    /\ failed' = FALSE
    /\ pc' = "et"
    /\ UNCHANGED <<tasks, riskVars>>

\* var etTable = etCol.map(reduceRegions ... set year/month).flatten()
EtReduce ==
    /\ pc = "et"
    /\ table' = ReducePerImage(collection)
    /\ pc' = "et_table"
    /\ UNCHANGED <<catalog, collection, failed, tasks, riskVars>>

\* Export.table.toDrive({collection: etTable, description: 'Bihar_Block_ET'})
EtExport ==
    /\ pc = "et_table"
    /\ tasks' = Append(tasks, ExportTask("Bihar_Block_ET", "ET"))
    /\ pc' = "et_exported"
    /\ catalog' = {}
    /\ collection' = {}
    /\ table' = {}
    /\ failed' = FALSE
    /\ UNCHANGED riskVars

\* var ndvi = ee.ImageCollection("MODIS/061/MOD13Q1").filterBounds(blocks)
\*   .filterDate('2019-01-01', '2024-12-31').select('NDVI')
\*   .map(img.multiply(0.0001).rename('NDVI').copyProperties)
ModisScale == Rat(1, 10000)
ModisIndex(img) ==
    CopyTimeStart(Rename(Multiply(Select(img, "NDVI"), ModisScale), "NDVI"), img)

ModisPipeline(cat) ==
    { ModisIndex(img) :
        img \in FilterDate(FilterBounds(cat), FromYMD(2019, 1, 1),
                           FromYMD(2024, 12, 31)) }

ModisCollection ==
    /\ pc = "et_exported"
    /\ \E cat \in ModisCatalogs :
          /\ catalog' = cat
          /\ collection' = ModisPipeline(cat)
    /\ table' = {}
    /\ failed' = FALSE
    /\ pc' = "modis"
    /\ UNCHANGED <<tasks, riskVars>>

\* var ndviTable = ndvi.map(reduceRegions ... set year/month).flatten()
ModisReduce ==
    /\ pc = "modis"
    /\ table' = ReducePerImage(collection)
    /\ pc' = "modis_table"
    /\ UNCHANGED <<catalog, collection, failed, tasks, riskVars>>

\* Export.table.toDrive({collection: ndviTable, description: 'Bihar_Block_NDVI'})
ModisExport ==
    /\ pc = "modis_table"
    /\ tasks' = Append(tasks, ExportTask("Bihar_Block_NDVI", "NDVI"))
    /\ pc' = "done"
    /\ catalog' = {}
    /\ collection' = {}
    /\ table' = {}
    /\ failed' = FALSE
    /\ UNCHANGED riskVars

Next ==
    \/ S2Collection
    \/ S2Reduce
    \/ S2Export
    \/ ChirpsCollection
    \/ MonthlyRain
    \/ RainReduce
    \/ RainExport
    \/ EtCollection
    \/ EtReduce
    \/ EtExport
    \/ ModisCollection
    \/ ModisReduce
    \/ ModisExport

Spec == Init /\ [][Next]_vars

---------------------------------------------------------------------------
(* The compound risk index (Step A normalization, Step B composite scoring, *)
(* Step C classification) over a table of per-block stress indices.        *)
(* Every step is invariant under a permutation of the rows, so the input   *)
(* tables are enumerated in one canonical (sorted) row order.              *)

\* no rescaling: the identity map on no column
NoAffine == [ target |-> "none", a |-> 1, b |-> 0 ]

Column(rows, name) == { IF name = "flood" THEN rows[i].flood ELSE rows[i].gw :
                          i \in DOMAIN rows }
MinOf(S) == CHOOSE x \in S : \A y \in S : x <= y
MaxOf(S) == CHOOSE x \in S : \A y \in S : y <= x

\* variant of MinMaxScale: the minimum is not subtracted
MinMaxScaleNoShift(x, mn, mx) ==
    IF mx - mn = 0 THEN <<x, 0>> ELSE Rat(x, mx - mn)

\* variant of MinMaxScale: divides by the maximum instead of the range
MinMaxScaleByMax(x, mn, mx) ==
    IF mx = 0 THEN <<x - mn, 0>> ELSE Rat(x - mn, Abs(mx))

\* Norm_x = (x - x_min) / (x_max - x_min); <<n, 0>> stands for the undefined
\* quotient of a division by zero
MinMaxScale(x, mn, mx) ==
    IF mx - mn = 0 THEN <<x - mn, 0>> ELSE Rat(x - mn, mx - mn)

\* min-max normalization, defined as 0 when max = min
Normalize(x, mn, mx) ==
    IF mx = mn THEN <<0, 1>> ELSE MinMaxScale(x, mn, mx)

\* Compound Score = 0.5 * Flood_norm + 0.5 * GW_norm
CompoundScore(nf, ng) == RAdd(RMul(<<1, 2>>, nf), RMul(<<1, 2>>, ng))

NormalizedFlood(rows, i) ==
    Normalize(rows[i].flood, MinOf(Column(rows, "flood")), MaxOf(Column(rows, "flood")))

NormalizedGw(rows, i) ==
    Normalize(rows[i].gw, MinOf(Column(rows, "gw")), MaxOf(Column(rows, "gw")))

Scores(rows) ==
    [ i \in DOMAIN rows |->
        CompoundScore(NormalizedFlood(rows, i), NormalizedGw(rows, i)) ]

\* the k-th smallest of the scores (k in 1 .. Len)
KthSmallest(sc, k) ==
    LET v == CHOOSE i \in DOMAIN sc :
                 /\ Cardinality({ j \in DOMAIN sc : RLess(sc[j], sc[i]) }) < k
                 /\ Cardinality({ j \in DOMAIN sc : RLeq(sc[j], sc[i]) }) >= k
    IN  sc[v]

\* the 80th percentile of the scores, linearly interpolated between the two
\* order statistics around position 0.8 * (N - 1)
Percentile80(sc) ==
    LET n == Len(sc)
        lo == (4 * (n - 1)) \div 5
        fr == (4 * (n - 1)) % 5
        a == KthSmallest(sc, lo + 1)
    IN  IF fr = 0 THEN a
        ELSE RAdd(a, RMul(<<fr, 5>>, RSub(KthSmallest(sc, lo + 2), a)))

\* variant of Classify: only blocks strictly above the percentile
ClassifyStrict(score, threshold) ==
    IF RLess(threshold, score) THEN "Critical" ELSE "Non-critical"

\* blocks at or above the 80th percentile are Critical
Classify(score, threshold) ==
    IF RLeq(threshold, score) THEN "Critical" ELSE "Non-critical"

CompoundRows(rows) ==
    LET sc == Scores(rows)
        th == Percentile80(sc)
    IN  [ i \in DOMAIN rows |->
            [ normalized_flood |-> NormalizedFlood(rows, i),
              normalized_gw |-> NormalizedGw(rows, i),
              compound_score |-> sc[i],
              classification |-> Classify(sc[i], th) ] ]

InitExtractIdle ==
    /\ pc = "idle"
    /\ catalog = {}
    /\ collection = {}
    /\ table = {}
    /\ failed = FALSE
    /\ tasks = <<>>

InitRisk ==
    /\ InitExtractIdle
    /\ rpc = "input"
    /\ indices = <<>>
    /\ baseline = <<>>
    /\ affine = NoAffine
    /\ risk = <<>>

RowLeq(r, q) == r.flood < q.flood \/ (r.flood = q.flood /\ r.gw <= q.gw)

\* one more block with its two model outputs joins the StressIndex table
AddBlock(limit) ==
    /\ rpc = "input"
    /\ Len(indices) < limit
    /\ \E f \in 0 .. MaxFlood, g \in 0 .. MaxGw :
          LET row == [ flood |-> f, gw |-> g ]
          IN  /\ indices # <<>> => RowLeq(indices[Len(indices)], row)
              /\ indices' = Append(indices, row)
    /\ UNCHANGED <<rpc, baseline, affine, risk, extractVars>>

Scales == {-1, 0, 2}
Offsets == {0, 3}

AffineMap(rows, target, a, b) ==
    [ i \in DOMAIN rows |->
        IF target = "flood"
        THEN [ flood |-> a * rows[i].flood + b, gw |-> rows[i].gw ]
        ELSE [ flood |-> rows[i].flood, gw |-> a * rows[i].gw + b ] ]

\* an affine map x -> a*x + b applied to one of the two indices of every
\* block before normalization
Rescale ==
    /\ rpc = "input"
    /\ indices # <<>>
    /\ \E target \in {"flood", "gw"}, a \in Scales, b \in Offsets :
          /\ indices' = AffineMap(indices, target, a, b)
          /\ affine' = [ target |-> target, a |-> a, b |-> b ]
    /\ baseline' = indices
    /\ rpc' = "rescaled"
    /\ UNCHANGED <<risk, extractVars>>

\* Steps A, B and C over the whole table
ComputeRisk ==
    /\ rpc \in {"input", "rescaled"}
    /\ indices # <<>>
    /\ risk' = CompoundRows(indices)
    /\ rpc' = "scored"
    /\ UNCHANGED <<indices, baseline, affine, extractVars>>

NextRisk ==
    \/ AddBlock(MaxRiskBlocks)
    \/ ComputeRisk

SpecRisk == InitRisk /\ [][NextRisk]_vars

NextRescale ==
    \/ AddBlock(MaxRescaleBlocks)
    \/ Rescale
    \/ ComputeRisk

SpecRescale == InitRisk /\ [][NextRescale]_vars

---------------------------------------------------------------------------
(* Properties of the extraction script *)

PerSceneTable == pc \in {"s2_table", "et_table", "modis_table"}
RainTable == pc = "rain_table" /\ ~failed
AnyTable == PerSceneTable \/ RainTable

RowsOf(b, y, m) == { r \in table : r.block = b /\ r.year = y /\ r.month = m }
RowsOfImage(b, ix) == { r \in table : r.block = b /\ r.image = ix }
BandOf(img) == img.bands[CHOOSE n \in BandNames(img) : TRUE]
ImageMean(img, b) ==
    IF BandNames(img) = {} THEN NoValue ELSE MeanOver(BandOf(img), PixelsOf(b))

DailyOfMonth(y, m) ==
    { s \in catalog : FromYMD(y, m, 1) <= s.time_start
                      /\ s.time_start < FromYMD(y, m, 1) + DaysInMonth(y, m) }

\* C2 as stated: for every year 2019..2024 and month 1..12 the monthly
\* rainfall image is the sum of all daily images dated inside that calendar
\* month; no day is left out, 2024-12-31 included.
C2_MonthlySumComplete ==
    (pc = "monthly" /\ ~failed) =>
        \A img \in collection :
            LET days == DailyOfMonth(img.year, img.month)
            IN  /\ (days = {}) = (BandNames(img) = {})
                /\ days # {} =>
                      \A p \in Pixels :
                          BandOf(img)[p] =
                              SumOver(days, [ s \in days |-> s.bands["precipitation"][p] ])

\* a scene of the hosted dataset that is valid for block b in period (y, m)
ValidScene(s, b, y, m) ==
    /\ FromYMD(y, m, 1) <= s.time_start
    /\ s.time_start < FromYMD(y, m, 1) + DaysInMonth(y, m)
    /\ s.footprint \cap PixelsOf(b) # {}
    /\ pc = "s2_table" => s.cloud < CloudThreshold

\* C3 as stated: a block with no valid scene in a (year, month) has no row for
\* that period in the exported table (with or without a mean value).
C3_NoRowWithoutScene ==
    AnyTable =>
        \A r \in table :
            \E s \in catalog : ValidScene(s, r.block, r.year, r.month)

InRange(s) == startDate <= s.time_start /\ s.time_start < endDate

ScaledPixel(p) ==
    CASE pc = "s2_table" ->
            Rat(DN("B8", p) - DN("B4", p), DN("B8", p) + DN("B4", p))
      [] pc = "et_table" -> Rat(DN("ET", p), 10)
      [] pc = "modis_table" -> Rat(DN("NDVI", p), 10000)

ScaledBlockMean(s, b) ==
    LET valid == s.footprint \cap PixelsOf(b)
    IN  IF valid = {} THEN NoValue
        ELSE RDivInt(SumOver(valid, [ p \in valid |-> ScaledPixel(p) ]),
                     Cardinality(valid))

\* C5: in the Sentinel-2 NDVI, MODIS ET (x 0.1) and MODIS NDVI (x 0.0001)
\* tables every value is the block mean of the per-pixel scaled values: the
\* per-pixel step precedes the mean reduction.
C5_ScaledBeforeMean ==
    PerSceneTable =>
        \A r \in table :
            \E s \in catalog :
                s.index = r.image /\ r.mean = ScaledBlockMean(s, r.block)

\* C5 witness: an evapotranspiration row with a value
C5_Witness ==
    /\ pc = "et_table"
    /\ \E r \in table : r.mean # NoValue

Variables == {"Rainfall", "ET", "NDVI"}

\* C6 as stated: once all exports are issued, each variable has exactly one
\* export task and no two tasks carry the same description.
C6_OneTaskPerVariable ==
    pc = "done" =>
        /\ \A v \in Variables :
              Cardinality({ i \in DOMAIN tasks : tasks[i].variable = v }) = 1
        /\ \A i, j \in DOMAIN tasks :
              i # j => tasks[i].description # tasks[j].description

\* the time_start of the image a row was reduced from
SourceStart(r) ==
    IF pc = "rain_table"
    THEN (CHOOSE img \in collection : img.index = r.image).time_start
    ELSE (CHOOSE s \in catalog : s.index = r.image).time_start

\* C10: every row carries a year in 2019..2024 and a month in 1..12 that are
\* the calendar year and month of the start time of its source image.
C10_RowPeriod ==
    AnyTable =>
        \A r \in table :
            /\ r.year \in 2019 .. 2024
            /\ r.month \in 1 .. 12
            /\ FromYMD(r.year, r.month, 1) <= SourceStart(r)
            /\ SourceStart(r) < FromYMD(r.year, r.month, 1)
                                  + DaysInMonth(r.year, r.month)

\* C10 witness: a row of February 2019 in a per-scene table and the rainfall
\* rows of December 2024
C10_Witness ==
    \/ /\ pc = "modis_table"
       /\ \E r \in table : r.year = 2019 /\ r.month = 2
    \/ /\ RainTable
       /\ \E r \in table : r.year = 2024 /\ r.month = 12

---------------------------------------------------------------------------
(* Properties of the compound risk index *)

Scored == rpc = "scored"
InUnit(v) == v[2] > 0 /\ RLeq(<<0, 1>>, v) /\ RLeq(v, <<1, 1>>)
Degenerate(name) == Cardinality(Column(indices, name)) = 1

Critical == { i \in DOMAIN risk : risk[i].classification = "Critical" }
Top20(n) == (n + 4) \div 5
RiskScores == [ i \in DOMAIN risk |-> risk[i].compound_score ]

SameRanking(sc1, sc2) ==
    \A i, j \in DOMAIN sc1 : RLeq(sc1[i], sc1[j]) <=> RLeq(sc2[i], sc2[j])

Rescaled == Scored /\ affine.target # "none"

\* C9 as stated: for every affine map x -> a*x + b applied to all flood
\* indices or to all groundwater indices, the order of the blocks by
\* composite score is the same as without the rescaling.
C9_RankingInvariantAnyAffine ==
    Rescaled => SameRanking(RiskScores, Scores(baseline))

\* C9 amended: the order of the blocks by composite score is invariant under
\* every affine map x -> a*x + b with a > 0 applied to either input index.
C9_RankingInvariantPositiveAffine ==
    (Rescaled /\ affine.a > 0) => SameRanking(RiskScores, Scores(baseline))

\* C9 witness: blocks scored after a rescaling with positive slope and
\* non-zero offset of a non-degenerate index
C9_Witness ==
    /\ Rescaled
    /\ affine.a > 0 /\ affine.b # 0
    /\ Cardinality(Column(baseline, affine.target)) > 1
    /\ indices # baseline

===========================================================================
